---- MODULE Spec2Model ----
(***************************************************************************)
(* Local-network peer discovery of localshare (namespace Discovery).       *)
(*                                                                         *)
(* The module models the classes of src/unnamed/part_000 (discovery.h with *)
(* LocalDnsPeer, DnsSocket, ServiceRecord, Resolver and Browser) as one    *)
(* state machine driven by the callbacks of the DNS-SD facility and by the *)
(* Qt event loop, and the pure functions username_of / service_name_of.    *)
(*                                                                         *)
(* Strings that the code takes apart (service names, usernames, suffixes)  *)
(* are sequences of one-character strings.                                 *)
(***************************************************************************)
EXTENDS Integers, Sequences, FiniteSets, TLC

VARIABLES
    local_peer,         \* the LocalDnsPeer of the application, or NoObject
    requested_username, \* LocalDnsPeer::requested_username
    service_name,       \* LocalDnsPeer::service_name (the accepted name)
    record,             \* the ServiceRecord child of the LocalDnsPeer, or NoObject
    browser,            \* the Browser child of the LocalDnsPeer, or NoObject
    peers,              \* DnsPeer children of the Browser, in children order
    resolvers,          \* Resolver children of the Browser
    emitted,            \* signals emitted by the last handler
    aborted,            \* the process was aborted (qFatal / failed Q_ASSERT)
    ns_name,            \* naming functions: the service name given
    ns_suffix,          \* naming functions: the suffix given
    ns_user,            \* naming functions: result of username_of
    ns_composed,        \* naming functions: result of service_name_of
    ns_pc,              \* naming functions: which calls have been made
    sk_class,           \* one DnsSocket: the subclass of the object
    sk_debug,           \* one DnsSocket: the build checks Q_ASSERT
    sk_pc,              \* one DnsSocket: where the object is in its life
    sk_sock,            \* one DnsSocket: ref, error_msg, pending deleteLater
    sk_released,        \* one DnsSocket: DNSServiceRefDeallocate calls on its handle
    sk_observed,        \* one DnsSocket: what listeners of being_destroyed saw
    lg_service,         \* src/src/discovery.h: the Service, or NoObject
    lg_browser,         \* src/src/discovery.h: the Browser, or NoObject
    lg_discovered,      \* src/src/discovery.h: Browser::discovered_peers
    lg_resolvers,       \* src/src/discovery.h: Resolver children of the Browser
    lg_lookups,         \* src/src/discovery.h: host lookups pending in QHostInfo
    lg_emitted,         \* src/src/discovery.h: signals emitted by the last handler
    lg_aborted,         \* src/src/discovery.h: the process was aborted (qFatal)
    lg_last             \* src/src/discovery.h: last browse notification of each name

vars == <<local_peer, requested_username, service_name, record, browser, peers,
          resolvers, emitted, aborted,
          ns_name, ns_suffix, ns_user, ns_composed, ns_pc,
          sk_class, sk_debug, sk_pc, sk_sock, sk_released, sk_observed,
          lg_service, lg_browser, lg_discovered, lg_resolvers, lg_lookups,
          lg_emitted, lg_aborted, lg_last>>

sys_vars == <<local_peer, requested_username, service_name, record, browser,
              peers, resolvers, emitted, aborted>>

ns_vars == <<ns_name, ns_suffix, ns_user, ns_composed, ns_pc>>

sk_vars == <<sk_class, sk_debug, sk_pc, sk_sock, sk_released, sk_observed>>

lg_vars == <<lg_service, lg_browser, lg_discovered, lg_resolvers, lg_lookups,
            lg_emitted, lg_aborted, lg_last>>

\* the variables the discovery subsystem as a whole leaves alone
aux_vars == <<ns_vars, sk_vars, lg_vars>>

----------------------------------------------------------------------------
(* Bounds of the model *)

\* longest string given to the naming functions
MaxLen == 4

\* most Resolver objects alive at once
MaxResolvers == 1

\* the facility cuts a registered name after this many characters
MaxServiceName == 1

\* most host lookups pending in QHostInfo at once
MaxLookups == 2

----------------------------------------------------------------------------
(* Strings *)

At == "@"

Chars == {"a", "b", At}

Strings(n) == UNION {[1..k -> Chars] : k \in 0..n}

EmptyString == <<>>

----------------------------------------------------------------------------
(* QString::section (sep, start, end) with the default flags, as           *)
(* username_of uses it: the fields of s between separators, empty fields   *)
(* kept; negative indices count from the end; fields start..end joined     *)
(* with the separator; an empty string when the range is empty.            *)

RECURSIVE Split(_, _)
Split(s, sep) ==
    IF \A i \in 1..Len(s) : s[i] # sep
    THEN <<s>>
    ELSE LET i == CHOOSE k \in 1..Len(s) :
                      s[k] = sep /\ \A j \in 1..(k - 1) : s[j] # sep
         IN  <<SubSeq(s, 1, i - 1)>> \o Split(SubSeq(s, i + 1, Len(s)), sep)

RECURSIVE Join(_, _, _, _)
Join(fields, first, last, sep) ==
    IF first > last THEN EmptyString
    ELSE IF first = last THEN fields[first]
    ELSE fields[first] \o <<sep>> \o Join(fields, first + 1, last, sep)

\* start and end are the 0-based field indices of the Qt call
section(s, sep, start, end) ==
    LET sections == Split(s, sep)
        sectionsSize == Len(sections)
        st == IF start < 0 THEN start + sectionsSize ELSE start
        en == IF end < 0 THEN end + sectionsSize ELSE end
    IN  IF st >= sectionsSize \/ en < 0 \/ st > en
        THEN EmptyString
        ELSE Join(sections, (IF st < 0 THEN 0 ELSE st) + 1,
                  (IF en >= sectionsSize THEN sectionsSize - 1 ELSE en) + 1, sep)

\* a username_of that splits at the first '@' instead of the last
username_of_first_at(name) ==
    LET s == section(name, At, 0, 0)
    IN  IF s # EmptyString THEN s ELSE name

\* a username_of without the fallback for an empty prefix
username_of_no_fallback(name) == section(name, At, 0, -2)

username_of(name) ==
    LET s == section(name, At, 0, -2)
    IN  IF s # EmptyString THEN s ELSE name

\* QString ("%1@%2").arg (username, suffix): both markers are replaced in one
\* pass, the arguments are not scanned again
service_name_of(username, sfx) == username \o <<At>> \o sfx

----------------------------------------------------------------------------
(* Inputs of the model *)

\* usernames the user may request (Settings::Username):
\* set_requested_username takes any string, the empty one included
Usernames == {<<>>, <<"a">>}

\* names the callbacks of src/src/discovery.h carry: the usernames instances
\* register as their service names, the one of this instance included
LgNames == {<<"a">>, <<"a", "b">>}

\* LocalDnsPeer::suffix: the local host name, set once by the constructor
suffix == <<"h">>

\* service names the browse callback may announce: the names instances of
\* localshare on this host name register, the local one included
BrowseNames == {service_name_of(u, suffix) : u \in Usernames}

\* kDNSServiceErr_NoError, and one of the error codes of dns_sd.h
kDNSServiceErr_NoError == 0
kDNSServiceErr_Unknown == -65537
kDNSServiceErr_NoSuchName == -65538
kDNSServiceErr_NoMemory == -65539
kDNSServiceErr_BadParam == -65540
kDNSServiceErr_BadReference == -65541
kDNSServiceErr_BadState == -65542
kDNSServiceErr_BadFlags == -65543
kDNSServiceErr_Unsupported == -65544
kDNSServiceErr_NotInitialized == -65545
kDNSServiceErr_AlreadyRegistered == -65547
kDNSServiceErr_NameConflict == -65548
kDNSServiceErr_Invalid == -65549
kDNSServiceErr_Firewall == -65550
kDNSServiceErr_Incompatible == -65551
kDNSServiceErr_BadInterfaceIndex == -65552
kDNSServiceErr_Refused == -65553
kDNSServiceErr_NoSuchRecord == -65554
kDNSServiceErr_NoAuth == -65555
kDNSServiceErr_NoSuchKey == -65556
kDNSServiceErr_NATTraversal == -65557
kDNSServiceErr_DoubleNAT == -65558
kDNSServiceErr_BadTime == -65559
kDNSServiceErr_ServiceNotRunning == -65563

\* a code that is none of dns_sd.h
UnlistedCode == -1

ErrorCodes == {kDNSServiceErr_Unknown}

\* the error codes a single DnsSocket is followed with
SocketErrorCodes == {kDNSServiceErr_Unknown, kDNSServiceErr_NoSuchName,
                     kDNSServiceErr_NoMemory, kDNSServiceErr_NameConflict,
                     kDNSServiceErr_ServiceNotRunning, UnlistedCode}

AnyCode == {kDNSServiceErr_NoError} \cup ErrorCodes

\* what a resolve reply carries: host name and port in network byte order
ResolveReplies == {[hostname |-> "h1.local", port |-> 37392],
                   [hostname |-> "h2.local", port |-> 20480]}

\* a name cut to the facility's maximum length
Truncated(name) ==
    SubSeq(name, 1, IF Len(name) < MaxServiceName THEN Len(name) ELSE MaxServiceName)

\* the names the facility may hand to register_callback for a requested
\* name: the name itself, or the name cut to the maximum length
RegisteredNames(name) == {name, Truncated(name)}

\* what a dangling pointer to the bytes of a name may read as, for one
Garbled == <<"b">>

\* the string DNSServiceRegister reads through qUtf8Printable (str): str
\* itself with the macro of Qt; with Qt before 5.4 the function of
\* compatibility.h returns the data of a QByteArray that is destroyed when it
\* returns, and the bytes read through it are str or anything else.  The
\* service type goes through it as well: a registration or a browse of
\* another type is one the facility refuses (the error code of the
\* constructor) or one with names of its own (the names of the callbacks)
qUtf8Printable(str) == {str, Garbled}

\* every name DNSServiceRegister may read as the name to register
RegisterNames == UNION {qUtf8Printable(service_name_of(u, suffix)) : u \in Usernames}

\* every name a register_callback of the model may carry; register_callback
\* takes the name it is given, whatever name was asked (the facility renames
\* on a conflict): here the name of the other username stands for a rename
ReplyNames == UNION {RegisteredNames(n) : n \in RegisterNames}

\* qFromBigEndian on a little-endian host: the two bytes of a quint16 swapped
qFromBigEndian(port) == (port % 256) * 256 + (port \div 256)

----------------------------------------------------------------------------
(* Objects *)

NoObject == [alive |-> FALSE]

\* Resolver::peer once the Browser has taken the DnsPeer: the Resolver still
\* points to it, and no longer owns it
TakenPeer == [taken |-> TRUE]

\* DnsPeer::port before set_port: the constructor leaves it uninitialised
UninitialisedPort == -1

\* DnsPeer (service_name, parent): hostname empty, port not initialised
DnsPeer(name) ==
    [service_name |-> name, hostname |-> "",
     port |-> UninitialisedPort, deleteLater |-> FALSE]

\* the comparison reads an uninitialised port on the first call; both of its
\* outcomes leave port = new_port (only port_changed depends on it)
set_port(p, new_port) ==
    IF p.port # new_port THEN [p EXCEPT !.port = new_port] ELSE p

set_hostname(p, new_hostname) ==
    IF p.hostname # new_hostname THEN [p EXCEPT !.hostname = new_hostname] ELSE p

\* DnsSocket (parent): ref {nullptr}, error_msg empty
DnsSocket == [alive |-> TRUE, ref |-> "null", error_msg |-> EmptyString,
              deleteLater |-> FALSE]

has_error(e) == e # kDNSServiceErr_NoError

\* DnsSocket::make_error_string: the text of each code of the switch; any
\* other code is written into the text
DnsSocket_make_error_string(e) ==
    CASE e = kDNSServiceErr_NoError -> "No error"
      [] e = kDNSServiceErr_Unknown -> "Unknown error"
      [] e = kDNSServiceErr_NoSuchName -> "Internal error: No such name"
      [] e = kDNSServiceErr_NoMemory -> "Out of memory"
      [] e = kDNSServiceErr_BadParam -> "API error: Bad parameter"
      [] e = kDNSServiceErr_BadReference -> "API error: Bad DNSServiceRef"
      [] e = kDNSServiceErr_BadState -> "Internal error: Bad state"
      [] e = kDNSServiceErr_BadFlags -> "API error: Bad flags"
      [] e = kDNSServiceErr_Unsupported -> "Unsupported operation"
      [] e = kDNSServiceErr_NotInitialized -> "API error: DNSServiceRef is not initialized"
      [] e = kDNSServiceErr_AlreadyRegistered -> "Service is already registered"
      [] e = kDNSServiceErr_NameConflict -> "Service name is already taken"
      [] e = kDNSServiceErr_Invalid -> "API error: Invalid data"
      [] e = kDNSServiceErr_Firewall -> "Firewall"
      [] e = kDNSServiceErr_Incompatible -> "Localshare incompatible with local Zeroconf service"
      [] e = kDNSServiceErr_BadInterfaceIndex -> "API error: Bad interface index"
      [] e = kDNSServiceErr_Refused -> "kDNSServiceErr_Refused"
      [] e = kDNSServiceErr_NoSuchRecord -> "kDNSServiceErr_NoSuchRecord"
      [] e = kDNSServiceErr_NoAuth -> "kDNSServiceErr_NoAuth"
      [] e = kDNSServiceErr_NoSuchKey -> "The key does not exist in the TXT record"
      [] e = kDNSServiceErr_NATTraversal -> "kDNSServiceErr_NATTraversal"
      [] e = kDNSServiceErr_DoubleNAT -> "kDNSServiceErr_DoubleNAT"
      [] e = kDNSServiceErr_BadTime -> "kDNSServiceErr_BadTime"
      [] e = kDNSServiceErr_ServiceNotRunning -> "Zeroconf service in not running"
      [] OTHER -> "Unknown error code: " \o ToString(e)

\* the make_error_string override of each subclass
make_error_string(class, e) ==
    CASE class = "ServiceRecord" ->
             <<"Service registration failed: ", DnsSocket_make_error_string(e)>>
      [] class = "Resolver" ->
             <<"Service resolver failed: ", DnsSocket_make_error_string(e)>>
      [] class = "Browser" ->
             <<"Service browser failed: ", DnsSocket_make_error_string(e)>>

\* DnsSocket::failure, past its Q_ASSERT
failure(sock, class, e) ==
    [sock EXCEPT !.error_msg = make_error_string(class, e),
                 !.deleteLater = TRUE]

\* Q_ASSERT (error_msg.isEmpty ()) of DnsSocket::failure fails, and the build
\* checks assertions: the process is aborted
AssertAborts(sock, e, debug_build) ==
    has_error(e) /\ debug_build /\ sock.error_msg # EmptyString

\* DnsSocket::init_with, up to the descriptor: the query function sets ref
\* and returns err
init_with(sock, class, err) ==
    IF has_error(err) THEN failure(sock, class, err)
    ELSE [sock EXCEPT !.ref = "open"]

----------------------------------------------------------------------------
(* Signals.  A signal is a tuple starting with its name. *)

SigRequestedServiceNameChanged == <<"requested_service_name_changed">>
SigUsernameChanged == <<"username_changed">>
SigServiceNameChanged == <<"service_name_changed">>
SigAdded(peer) == <<"added", peer>>
SigBeingDestroyed(class, msg) == <<"being_destroyed", class, msg>>

----------------------------------------------------------------------------
(* LocalDnsPeer *)

\* a set_service_name that always emits service_name_changed
set_service_name_always_emits(cur, new_service_name) ==
    [service_name |-> new_service_name,
     signals |-> {SigServiceNameChanged}
                 \cup (IF username_of(cur) # username_of(new_service_name)
                       THEN {SigUsernameChanged} ELSE {})]

\* a set_service_name that keeps a name once one is set
set_service_name_keeps(cur, new_service_name) ==
    LET now == IF cur = EmptyString THEN new_service_name ELSE cur
    IN  [service_name |-> now,
         signals |-> (IF cur # now THEN {SigServiceNameChanged} ELSE {})
                     \cup (IF username_of(cur) # username_of(now)
                           THEN {SigUsernameChanged} ELSE {})]

\* LocalDnsPeer::set_service_name: the name afterwards and the signals emitted
set_service_name(cur, new_service_name) ==
    LET old_username == username_of(cur)
        changed == cur # new_service_name
        now == IF changed THEN new_service_name ELSE cur
    IN  [service_name |-> now,
         signals |-> (IF changed THEN {SigServiceNameChanged} ELSE {})
                     \cup (IF old_username # username_of(now)
                           THEN {SigUsernameChanged} ELSE {})]

----------------------------------------------------------------------------
(* Browser *)

\* a find_peer_by_service_name that returns the first child whatever its name
find_peer_any(ps, name) == IF Len(ps) > 0 THEN 1 ELSE 0

\* Browser::find_peer_by_service_name: the position of the first DnsPeer child
\* with that service name, 0 for nullptr
find_peer_by_service_name(ps, name) ==
    IF \E i \in 1..Len(ps) : ps[i].service_name = name
    THEN CHOOSE i \in 1..Len(ps) :
             /\ ps[i].service_name = name
             /\ \A j \in 1..(i - 1) : ps[j].service_name # name
    ELSE 0

\* QObject::deleteLater on the child at position i (0: no child)
deleteLater(ps, i) ==
    IF i = 0 THEN ps ELSE [ps EXCEPT ![i].deleteLater = TRUE]

\* a peer_resolved without the test against the local service name
peer_resolved_no_filter(ps, local_name, peer) ==
    LET i == find_peer_by_service_name(ps, peer.service_name)
    IN  IF i # 0
        THEN [peers |-> [ps EXCEPT ![i] = set_port(set_hostname(@, peer.hostname),
                                                   peer.port)],
              signals |-> {}, taken |-> FALSE]
        ELSE [peers |-> Append(ps, peer), signals |-> {SigAdded(peer)},
              taken |-> TRUE]

\* a peer_resolved that does not update the port of a tracked peer
peer_resolved_stale_port(ps, local_name, peer) ==
    LET i == find_peer_by_service_name(ps, peer.service_name)
    IN  IF i # 0
        THEN [peers |-> [ps EXCEPT ![i] = set_hostname(@, peer.hostname)],
              signals |-> {}, taken |-> FALSE]
        ELSE IF local_name # peer.service_name
        THEN [peers |-> Append(ps, peer), signals |-> {SigAdded(peer)},
              taken |-> TRUE]
        ELSE [peers |-> ps, signals |-> {}, taken |-> FALSE]

\* a peer_resolved that does not look for a child of that name
peer_resolved_always_adds(ps, local_name, peer) ==
    IF local_name # peer.service_name
    THEN [peers |-> Append(ps, peer), signals |-> {SigAdded(peer)}, taken |-> TRUE]
    ELSE [peers |-> ps, signals |-> {}, taken |-> FALSE]

\* a peer_resolved that emits added without taking the peer (no setParent)
peer_resolved_no_setParent(ps, local_name, peer) ==
    LET i == find_peer_by_service_name(ps, peer.service_name)
    IN  IF i # 0
        THEN [peers |-> [ps EXCEPT ![i] = set_port(set_hostname(@, peer.hostname),
                                                   peer.port)],
              signals |-> {}, taken |-> FALSE]
        ELSE IF local_name # peer.service_name
        THEN [peers |-> ps, signals |-> {SigAdded(peer)}, taken |-> FALSE]
        ELSE [peers |-> ps, signals |-> {}, taken |-> FALSE]

\* Browser::peer_resolved: the DnsPeer children afterwards, the signals
\* emitted, and whether the Browser took the peer (setParent)
peer_resolved(ps, local_name, peer) ==
    LET i == find_peer_by_service_name(ps, peer.service_name)
    IN  IF i # 0
        THEN [peers |-> [ps EXCEPT ![i] = set_port(set_hostname(@, peer.hostname),
                                                   peer.port)],
              signals |-> {}, taken |-> FALSE]
        ELSE IF local_name # peer.service_name
        THEN [peers |-> Append(ps, peer), signals |-> {SigAdded(peer)},
              taken |-> TRUE]
        ELSE [peers |-> ps, signals |-> {}, taken |-> FALSE]

\* a service_name_changed slot that leaves the children as they are
service_name_changed_nothing(ps, local_name) == ps

\* Browser::service_name_changed (slot of LocalDnsPeer::service_name_changed)
service_name_changed(ps, local_name) ==
    deleteLater(ps, find_peer_by_service_name(ps, local_name))

\* browser_callback without kDNSServiceFlagsAdd: "Peer is removed"
peer_removed(ps, name) ==
    deleteLater(ps, find_peer_by_service_name(ps, name))

\* a Browser that does not connect its slot to service_name_changed
AfterNameSignals_unconnected(ps, signals, local_name, connected) == ps

\* the DnsPeer children after set_service_name emitted `signals`: the slot
\* runs when service_name_changed is among them and a Browser is connected
AfterNameSignals(ps, signals, local_name, connected) ==
    IF SigServiceNameChanged \in signals /\ connected
    THEN service_name_changed(ps, local_name)
    ELSE ps

----------------------------------------------------------------------------
(* State after construction of the LocalDnsPeer *)

InitSystem ==
    /\ local_peer = [alive |-> TRUE]
    /\ requested_username \in Usernames
    /\ service_name = EmptyString
    /\ record = NoObject
    /\ browser = NoObject
    /\ peers = <<>>
    /\ resolvers = {}
    /\ emitted = {}
    /\ aborted = FALSE

InitNamingIdle ==
    /\ ns_name = EmptyString
    /\ ns_suffix = EmptyString
    /\ ns_user = EmptyString
    /\ ns_composed = EmptyString
    /\ ns_pc = "idle"

InitSocketIdle ==
    /\ sk_class = "ServiceRecord"
    /\ sk_debug = FALSE
    /\ sk_pc = "unused"
    /\ sk_sock = NoObject
    /\ sk_released = 0
    /\ sk_observed = <<>>

InitLegacyIdle ==
    /\ lg_service = NoObject
    /\ lg_browser = NoObject
    /\ lg_discovered = {}
    /\ lg_resolvers = {}
    /\ lg_lookups = {}
    /\ lg_emitted = {}
    /\ lg_aborted = FALSE
    /\ lg_last = [u \in LgNames |-> "none"]

Init == InitSystem /\ InitNamingIdle /\ InitSocketIdle /\ InitLegacyIdle

\* qFatal, or a failed Q_ASSERT in a build that checks assertions: the process
\* is gone, and its objects with it
Abort ==
    /\ aborted' = TRUE
    /\ local_peer' = NoObject
    /\ requested_username' = EmptyString
    /\ service_name' = EmptyString
    /\ record' = NoObject
    /\ browser' = NoObject
    /\ peers' = <<>>
    /\ resolvers' = {}
    /\ emitted' = {}
    /\ UNCHANGED aux_vars

Running(sock) == sock.alive /\ sock.ref = "open"

----------------------------------------------------------------------------
(* LocalDnsPeer::set_requested_username *)

SetRequestedUsername(new_username) ==
    /\ ~aborted
    /\ local_peer.alive
    /\ requested_username # new_username
    /\ requested_username' = new_username
    /\ emitted' = {SigRequestedServiceNameChanged}
    /\ UNCHANGED <<aux_vars, local_peer, service_name, record, browser, peers, resolvers,
                   aborted>>

----------------------------------------------------------------------------
(* ServiceRecord *)

\* ServiceRecord::ServiceRecord: registers get_requested_service_name (),
\* which DNSServiceRegister reads through qUtf8Printable: the name the
\* facility registers is one of RegisterNames, and the ServiceRecord keeps
\* no copy of it; DNSServiceRegister returns err, DNSServiceRefSockFD a
\* descriptor or -1
NewServiceRecord(err, fd_ok) ==
    /\ ~aborted
    /\ local_peer.alive
    /\ ~record.alive
    /\ IF ~has_error(err) /\ ~fd_ok
       THEN Abort
       ELSE LET sock == init_with(DnsSocket, "ServiceRecord", err)
            IN  /\ record' = [alive |-> TRUE, ref |-> sock.ref,
                              error_msg |-> sock.error_msg,
                              deleteLater |-> sock.deleteLater]
                /\ emitted' = {}
                /\ UNCHANGED <<aux_vars, local_peer, requested_username, service_name, browser, peers,
                               resolvers, aborted>>

\* the name register_callback gives to set_service_name: the facility's
accepted_name(rec, name) == name

\* ServiceRecord::register_callback
RegisterCallback(error_code, name, debug_build) ==
    /\ ~aborted
    /\ Running(record)
    /\ IF has_error(error_code)
       THEN IF AssertAborts(record, error_code, debug_build)
            THEN Abort
            ELSE /\ record' = failure(record, "ServiceRecord", error_code)
                 /\ emitted' = {}
                 /\ UNCHANGED <<aux_vars, local_peer, requested_username, service_name, browser, peers,
                                resolvers, aborted>>
       ELSE LET set == set_service_name(service_name, accepted_name(record, name))
            IN  /\ service_name' = set.service_name
                /\ peers' = AfterNameSignals(peers, set.signals, set.service_name,
                                             browser.alive)
                /\ emitted' = set.signals
                /\ UNCHANGED <<aux_vars, local_peer, requested_username, record, browser, resolvers,
                               aborted>>

\* DnsSocket::has_pending_data of the ServiceRecord: DNSServiceProcessResult
\* returns err
RecordProcessResult(err, debug_build) ==
    /\ ~aborted
    /\ Running(record)
    /\ has_error(err)
    /\ IF AssertAborts(record, err, debug_build)
       THEN Abort
       ELSE /\ record' = failure(record, "ServiceRecord", err)
            /\ emitted' = {}
            /\ UNCHANGED <<aux_vars, local_peer, requested_username, service_name, browser, peers,
                           resolvers, aborted>>

\* ~ServiceRecord then ~DnsSocket: the local peer's name is reset when
\* get_local_peer () gives one (lp), the handle released, being_destroyed
\* emitted.  get_local_peer () is nullptr when the destructor runs inside
\* ~QObject of the parent, which is no longer a LocalDnsPeer by then.  The
\* state of the LocalDnsPeer and of the Browser's DnsPeer children
\* afterwards, and the signals emitted.
DestroyServiceRecord(rec, cur_name, ps, connected, lp) ==
    LET set == IF lp THEN set_service_name(cur_name, EmptyString)
               ELSE [service_name |-> cur_name, signals |-> {}]
    IN  [service_name |-> set.service_name,
         peers |-> AfterNameSignals(ps, set.signals, set.service_name, connected),
         signals |-> set.signals
                     \cup {SigBeingDestroyed("ServiceRecord", rec.error_msg)}]

\* the application deletes the ServiceRecord
DeleteServiceRecord ==
    /\ ~aborted
    /\ record.alive
    /\ LET d == DestroyServiceRecord(record, service_name, peers, browser.alive,
                                      local_peer.alive)
       IN  /\ service_name' = d.service_name
           /\ peers' = d.peers
           /\ emitted' = d.signals
    /\ record' = NoObject
    /\ UNCHANGED <<aux_vars, local_peer, requested_username, browser, resolvers, aborted>>

----------------------------------------------------------------------------
(* Browser and Resolver *)

\* Resolvers are told apart by an identity
Ids == 1..MaxResolvers

UsedIds == {r.id : r \in resolvers}

NewId == CHOOSE i \in Ids \ UsedIds : \A j \in Ids \ UsedIds : i <= j

\* Resolvers created without a parent
ChildResolvers_none(rs) == {}

\* the Resolvers of rs that are children of the Browser: browser_callback
\* creates every Resolver with the Browser as parent
ChildResolvers(rs) == rs

\* the being_destroyed signals of the Resolvers in rs
ResolversDestroyed(rs) ==
    {SigBeingDestroyed("Resolver", r.error_msg) : r \in rs}

\* Browser::Browser: connects service_name_changed, starts browsing
NewBrowser(err, fd_ok) ==
    /\ ~aborted
    /\ local_peer.alive
    /\ ~browser.alive
    /\ IF ~has_error(err) /\ ~fd_ok
       THEN Abort
       ELSE /\ browser' = init_with(DnsSocket, "Browser", err)
            /\ emitted' = {}
            /\ UNCHANGED <<aux_vars, local_peer, requested_username, service_name, record, peers,
                           resolvers, aborted>>

\* Browser::browser_callback with an error code
BrowserCallbackError(error_code, debug_build) ==
    /\ ~aborted
    /\ Running(browser)
    /\ has_error(error_code)
    /\ IF AssertAborts(browser, error_code, debug_build)
       THEN Abort
       ELSE /\ browser' = failure(browser, "Browser", error_code)
            /\ emitted' = {}
            /\ UNCHANGED <<aux_vars, local_peer, requested_username, service_name, record, peers,
                           resolvers, aborted>>

\* Resolver::Resolver: creates its DnsPeer, starts resolving
Resolver(id, name, err) ==
    LET sock == init_with(DnsSocket, "Resolver", err)
    IN  [alive |-> TRUE, ref |-> sock.ref, error_msg |-> sock.error_msg,
         deleteLater |-> sock.deleteLater,
         id |-> id, service_name |-> name,
         peer |-> DnsPeer(name), owns_peer |-> TRUE]

\* Browser::browser_callback with kDNSServiceFlagsAdd: a Resolver is created;
\* DNSServiceResolve returns err
BrowserCallbackAdd(name, err, fd_ok) ==
    /\ ~aborted
    /\ Running(browser)
    /\ Cardinality(resolvers) < MaxResolvers
    /\ IF ~has_error(err) /\ ~fd_ok
       THEN Abort
       ELSE /\ resolvers' = resolvers \cup {Resolver(NewId, name, err)}
            /\ emitted' = {}
            /\ UNCHANGED <<aux_vars, local_peer, requested_username, service_name, record, browser,
                           peers, aborted>>

\* Browser::browser_callback without kDNSServiceFlagsAdd
BrowserCallbackRemove(name) ==
    /\ ~aborted
    /\ Running(browser)
    /\ peers' = peer_removed(peers, name)
    /\ emitted' = {}
    /\ UNCHANGED <<aux_vars, local_peer, requested_username, service_name, record, browser,
                   resolvers, aborted>>

\* DnsSocket::has_pending_data of the Browser
BrowserProcessResult(err, debug_build) ==
    /\ ~aborted
    /\ Running(browser)
    /\ has_error(err)
    /\ IF AssertAborts(browser, err, debug_build)
       THEN Abort
       ELSE /\ browser' = failure(browser, "Browser", err)
            /\ emitted' = {}
            /\ UNCHANGED <<aux_vars, local_peer, requested_username, service_name, record, peers,
                           resolvers, aborted>>

\* the position in ps of the DnsPeer a Resolver points to once the Browser
\* has taken it: the child of that (constant) service name
PeerAt(ps, name) == CHOOSE i \in 1..Len(ps) : ps[i].service_name = name

\* Resolver::resolver_callback with an error code
ResolverCallbackError(r, error_code, debug_build) ==
    /\ ~aborted
    /\ r \in resolvers
    /\ Running(r)
    /\ has_error(error_code)
    /\ IF AssertAborts(r, error_code, debug_build)
       THEN Abort
       ELSE /\ resolvers' = (resolvers \ {r})
                            \cup {failure(r, "Resolver", error_code)}
            /\ emitted' = {}
            /\ UNCHANGED <<aux_vars, local_peer, requested_username, service_name, record, browser,
                           peers, aborted>>

\* Resolver::resolver_callback without error: the peer is filled, peer_resolved
\* is emitted (slot Browser::peer_resolved), the Resolver deletes itself later
ResolverCallback(r, reply) ==
    /\ ~aborted
    /\ r \in resolvers
    /\ Running(r)
    /\ r.owns_peer \/ \E i \in 1..Len(peers) : peers[i].service_name = r.service_name
    /\ LET c_peer == IF r.owns_peer THEN r.peer
                     ELSE peers[PeerAt(peers, r.service_name)]
           filled == set_hostname(set_port(c_peer, qFromBigEndian(reply.port)),
                                  reply.hostname)
           children == IF r.owns_peer THEN peers
                       ELSE [peers EXCEPT ![PeerAt(peers, r.service_name)] = filled]
           res == peer_resolved(children, service_name, filled)
           kept == r.owns_peer /\ ~res.taken
       IN  /\ peers' = res.peers
           /\ emitted' = res.signals
           /\ resolvers' = (resolvers \ {r})
                           \cup {[r EXCEPT !.peer = IF kept THEN filled ELSE TakenPeer,
                                           !.owns_peer = kept,
                                           !.deleteLater = TRUE]}
    /\ UNCHANGED <<aux_vars, local_peer, requested_username, service_name, record, browser,
                   aborted>>

\* DnsSocket::has_pending_data of a Resolver
ResolverProcessResult(r, err, debug_build) ==
    /\ ~aborted
    /\ r \in resolvers
    /\ Running(r)
    /\ has_error(err)
    /\ IF AssertAborts(r, err, debug_build)
       THEN Abort
       ELSE /\ resolvers' = (resolvers \ {r}) \cup {failure(r, "Resolver", err)}
            /\ emitted' = {}
            /\ UNCHANGED <<aux_vars, local_peer, requested_username, service_name, record, browser,
                           peers, aborted>>

\* the application deletes the Browser: ~Browser, ~DnsSocket, then ~QObject
\* deletes the children (Resolvers with the peers they own, DnsPeers)
DeleteBrowser ==
    /\ ~aborted
    /\ browser.alive
    /\ browser' = NoObject
    /\ peers' = <<>>
    /\ resolvers' = resolvers \ ChildResolvers(resolvers)
    /\ emitted' = {SigBeingDestroyed("Browser", browser.error_msg)}
                  \cup ResolversDestroyed(ChildResolvers(resolvers))
    /\ UNCHANGED <<aux_vars, local_peer, requested_username, service_name, record, aborted>>

----------------------------------------------------------------------------
(* The event loop delivers the pending DeferredDelete events: every object   *)
(* on which deleteLater was called before this pass is deleted; a deleteLater *)
(* called during the pass waits for the next one.                            *)

PendingDelete ==
    \/ record.alive /\ record.deleteLater
    \/ browser.alive /\ browser.deleteLater
    \/ \E r \in resolvers : r.deleteLater
    \/ \E i \in 1..Len(peers) : peers[i].deleteLater

\* the elements of ps at the positions where `before` is not marked
RECURSIVE Unmarked(_, _)
Unmarked(ps, before) ==
    IF ps = <<>> THEN <<>>
    ELSE (IF Head(before).deleteLater THEN <<>> ELSE <<Head(ps)>>)
         \o Unmarked(Tail(ps), Tail(before))

\* the functor browser_callback connects to Resolver::being_destroyed: a
\* message that is not empty is logged (qWarning), the Browser b is left as is
resolver_being_destroyed(b, msg) == b

\* the Browser b after the Resolvers in rs were destroyed
RECURSIVE AfterResolversDestroyed(_, _)
AfterResolversDestroyed(b, rs) ==
    IF rs = {} THEN b
    ELSE LET r == CHOOSE q \in rs : TRUE
         IN  AfterResolversDestroyed(resolver_being_destroyed(b, r.error_msg),
                                     rs \ {r})

DeferredDelete ==
    /\ ~aborted
    /\ PendingDelete
    /\ LET del_record == record.alive /\ record.deleteLater
           del_browser == browser.alive /\ browser.deleteLater
           d == IF del_record
                THEN DestroyServiceRecord(record, service_name, peers, browser.alive,
                                          local_peer.alive)
                ELSE [service_name |-> service_name, peers |-> peers, signals |-> {}]
           gone == {r \in resolvers : r.deleteLater}
                   \cup (IF del_browser THEN ChildResolvers(resolvers) ELSE {})
       IN  /\ service_name' = d.service_name
           /\ record' = IF del_record THEN NoObject ELSE record
           /\ browser' = IF del_browser THEN NoObject
                       ELSE AfterResolversDestroyed(browser, gone)
           /\ resolvers' = resolvers \ gone
           /\ peers' = IF del_browser THEN <<>> ELSE Unmarked(d.peers, peers)
           /\ emitted' = d.signals
                         \cup (IF del_browser
                               THEN {SigBeingDestroyed("Browser", browser.error_msg)}
                               ELSE {})
                         \cup ResolversDestroyed(gone)
    /\ UNCHANGED <<aux_vars, local_peer, requested_username, aborted>>

----------------------------------------------------------------------------
(* The LocalDnsPeer itself *)

\* the application deletes the LocalDnsPeer: ~QObject deletes its children,
\* the ServiceRecord and the Browser (with its Resolvers and DnsPeers).  The
\* ServiceRecord finds no local peer and leaves the name alone; each DnsSocket
\* emits being_destroyed.  The members of the LocalDnsPeer are gone with it.
DeleteLocalDnsPeer ==
    /\ ~aborted
    /\ local_peer.alive
    /\ local_peer' = NoObject
    /\ service_name' = EmptyString
    /\ record' = NoObject
    /\ browser' = NoObject
    /\ peers' = <<>>
    /\ resolvers' = {}
    /\ emitted' = (IF record.alive
                   THEN DestroyServiceRecord(record, service_name, peers,
                                             browser.alive, FALSE).signals
                   ELSE {})
                  \cup (IF browser.alive
                        THEN {SigBeingDestroyed("Browser", browser.error_msg)}
                             \cup ResolversDestroyed(ChildResolvers(resolvers))
                        ELSE {})
    /\ UNCHANGED <<aux_vars, requested_username, aborted>>

\* LocalDnsPeer::LocalDnsPeer: no accepted name, no child; the requested
\* username is the one Settings::Username holds
NewLocalDnsPeer(username) ==
    /\ ~aborted
    /\ ~local_peer.alive
    /\ local_peer' = [alive |-> TRUE]
    /\ requested_username' = username
    /\ service_name' = EmptyString
    /\ emitted' = {}
    /\ UNCHANGED <<aux_vars, record, browser, peers, resolvers, aborted>>

----------------------------------------------------------------------------
(* The discovery subsystem *)

Next ==
    \/ \E u \in Usernames : SetRequestedUsername(u)
    \/ \E err \in AnyCode, fd_ok \in BOOLEAN : NewServiceRecord(err, fd_ok)
    \/ \E e \in AnyCode, n \in ReplyNames, dbg \in BOOLEAN :
           RegisterCallback(e, n, dbg)
    \/ \E err \in ErrorCodes, dbg \in BOOLEAN : RecordProcessResult(err, dbg)
    \/ DeleteServiceRecord
    \/ \E err \in AnyCode, fd_ok \in BOOLEAN : NewBrowser(err, fd_ok)
    \/ \E e \in ErrorCodes, dbg \in BOOLEAN : BrowserCallbackError(e, dbg)
    \/ \E n \in BrowseNames, err \in AnyCode, fd_ok \in BOOLEAN :
           BrowserCallbackAdd(n, err, fd_ok)
    \/ \E n \in BrowseNames : BrowserCallbackRemove(n)
    \/ \E err \in ErrorCodes, dbg \in BOOLEAN : BrowserProcessResult(err, dbg)
    \/ \E r \in resolvers, e \in ErrorCodes, dbg \in BOOLEAN :
           ResolverCallbackError(r, e, dbg)
    \/ \E r \in resolvers, reply \in ResolveReplies : ResolverCallback(r, reply)
    \/ \E r \in resolvers, err \in ErrorCodes, dbg \in BOOLEAN :
           ResolverProcessResult(r, err, dbg)
    \/ DeleteBrowser
    \/ DeferredDelete
    \/ DeleteLocalDnsPeer
    \/ \E u \in Usernames : NewLocalDnsPeer(u)

Spec == Init /\ [][Next]_vars

----------------------------------------------------------------------------
(* The naming functions on their own: username_of is applied to a service   *)
(* name, then service_name_of to its result and a suffix.                   *)

\* suffixes given to service_name_of: host names, without '@'
Suffixes == {s \in Strings(MaxLen) : \A i \in 1..Len(s) : s[i] # At}

InitNaming ==
    /\ local_peer = [alive |-> TRUE]
    /\ requested_username = <<"a">>
    /\ service_name = EmptyString
    /\ record = NoObject
    /\ browser = NoObject
    /\ peers = <<>>
    /\ resolvers = {}
    /\ emitted = {}
    /\ aborted = FALSE
    /\ ns_name \in Strings(MaxLen)
    /\ ns_suffix \in Suffixes
    /\ ns_user = EmptyString
    /\ ns_composed = EmptyString
    /\ ns_pc = "start"
    /\ InitSocketIdle
    /\ InitLegacyIdle

CallUsernameOf ==
    /\ ns_pc = "start"
    /\ ns_user' = username_of(ns_name)
    /\ ns_pc' = "username"
    /\ UNCHANGED <<sys_vars, sk_vars, lg_vars, ns_name, ns_suffix, ns_composed>>

CallServiceNameOf ==
    /\ ns_pc = "username"
    /\ ns_composed' = service_name_of(ns_user, ns_suffix)
    /\ ns_pc' = "composed"
    /\ UNCHANGED <<sys_vars, sk_vars, lg_vars, ns_name, ns_suffix, ns_user>>

NextNaming ==
    \/ CallUsernameOf
    \/ CallServiceNameOf

SpecNaming == InitNaming /\ [][NextNaming]_vars

----------------------------------------------------------------------------
(* Vocabulary of the properties, defined without the operators of the model *)

HasAt(s) == \E i \in 1..Len(s) : s[i] = At

\* the position of the last '@' of s, 0 when there is none
LastAt(s) ==
    IF HasAt(s)
    THEN CHOOSE i \in 1..Len(s) : s[i] = At /\ \A j \in (i + 1)..Len(s) : s[j] # At
    ELSE 0

\* the text of s before its last '@'
BeforeLastAt(s) == SubSeq(s, 1, LastAt(s) - 1)

\* the text of s after its last '@'
suffix_of(s) == SubSeq(s, LastAt(s) + 1, Len(s))

----------------------------------------------------------------------------
(* Properties of the naming functions (SpecNaming) *)

\* C5, as stated: for every service name s that contains '@', composing
\* username_of(s) with the text after the last '@' of s gives s back, an
\* empty text before the last '@' included.
C5_RoundTripAnyPrefix ==
    (ns_pc = "composed" /\ HasAt(ns_name) /\ ns_suffix = suffix_of(ns_name))
        => ns_composed = ns_name

\* C5, amended: for every service name s that contains '@' and whose text
\* before the last '@' is not empty, composing username_of(s) with the text
\* after the last '@' of s gives s back.
C5_RoundTrip ==
    (/\ ns_pc = "composed"
     /\ HasAt(ns_name)
     /\ BeforeLastAt(ns_name) # EmptyString
     /\ ns_suffix = suffix_of(ns_name))
        => ns_composed = ns_name

\* a name with two '@' has made the round trip
C5_Witness ==
    /\ ns_pc = "composed"
    /\ ns_name = <<"a", At, At, "b">>
    /\ ns_suffix = <<"b">>
    /\ ns_user = <<"a", At>>
    /\ ns_composed = ns_name

\* C6: username_of(s) is the text of s before its last '@' when s contains
\* '@' and that text is not empty, and s itself otherwise; so it is s for
\* every s without '@'.
C6_UsernameOf ==
    (ns_pc # "start")
        => /\ ns_user = IF HasAt(ns_name) /\ BeforeLastAt(ns_name) # EmptyString
                        THEN BeforeLastAt(ns_name)
                        ELSE ns_name
           /\ (~HasAt(ns_name) => ns_user = ns_name)

\* username_of has cut a name with two '@' at the last one
C6_Witness ==
    /\ ns_pc = "username"
    /\ ns_name = <<"a", At, "b", At>>
    /\ ns_user = <<"a", At, "b">>

----------------------------------------------------------------------------
(* Vocabulary of the properties of the discovery subsystem *)

\* a DnsPeer child of the Browser has this service name
Tracked(ps, name) == \E i \in 1..Len(ps) : ps[i].service_name = name

\* the service names of the DnsPeer children, in children order
TrackedNames(ps) == [i \in 1..Len(ps) |-> ps[i].service_name]

\* the added signals among a handler's signals
AddedIn(signals) == {sig \in signals : sig[1] = "added"}

\* the port of a resolve reply in host byte order
HostPort(reply) ==
    CASE reply.port = 37392 -> 4242
      [] reply.port = 20480 -> 80

\* Browser::removed (username), the signal of src/src/discovery.h
SigRemoved(username) == <<"removed", username>>

\* the Resolver r after the step, if it is still there
After(rs, r) == {q \in rs : q.id = r.id}

----------------------------------------------------------------------------
(* Properties of the Browser (Spec) *)

\* C1: handling a resolved peer whose service name is the local peer's
\* accepted service name at that moment emits no added signal, leaves the
\* tracked peers unchanged, and the Browser does not take the peer, which
\* stays with its Resolver to be destroyed with it.
C1_SelfNeverAdded ==
    [][\A r \in resolvers, reply \in ResolveReplies :
           (ResolverCallback(r, reply) /\ r.service_name = service_name)
               => /\ AddedIn(emitted') = {}
                  /\ TrackedNames(peers') = TrackedNames(peers)
                  /\ \A q \in After(resolvers', r) : q.owns_peer = r.owns_peer
      ]_vars

\* the Resolver of the local service name has resolved, kept its peer, and
\* nothing is tracked
C1_Witness ==
    /\ service_name # EmptyString
    /\ peers = <<>>
    /\ emitted = {}
    /\ \E r \in resolvers :
           /\ r.service_name = service_name
           /\ r.deleteLater /\ r.error_msg = EmptyString
           /\ r.owns_peer /\ r.peer.hostname # ""

\* C2: a resolved peer whose service name is neither tracked nor the local
\* one becomes tracked and exactly one added signal is emitted for it; a
\* resolved peer whose service name is tracked emits no added signal, and
\* the tracked peer of that name takes the resolved host name and port (in
\* host byte order), the other tracked peers being untouched.
C2_AddOnceThenUpdate ==
    [][\A r \in resolvers, reply \in ResolveReplies :
           ResolverCallback(r, reply)
               => /\ (~Tracked(peers, r.service_name) /\ r.service_name # service_name)
                          => /\ Len(peers') = Len(peers) + 1
                             /\ \A i \in 1..Len(peers) : peers'[i] = peers[i]
                             /\ peers'[Len(peers')].service_name = r.service_name
                             /\ peers'[Len(peers')].hostname = reply.hostname
                             /\ peers'[Len(peers')].port = HostPort(reply)
                             /\ emitted' = {SigAdded(peers'[Len(peers')])}
                  /\ Tracked(peers, r.service_name)
                          => /\ AddedIn(emitted') = {}
                             /\ TrackedNames(peers') = TrackedNames(peers)
                             /\ \A i \in 1..Len(peers) :
                                    IF peers[i].service_name = r.service_name
                                    THEN /\ peers'[i].hostname = reply.hostname
                                         /\ peers'[i].port = HostPort(reply)
                                         /\ peers'[i].deleteLater = peers[i].deleteLater
                                    ELSE peers'[i] = peers[i]
      ]_vars

\* a tracked peer carries the host name and port of a second resolution: its
\* Resolver has resolved and kept its own peer, and the name is not the local
\* one
C2_Witness ==
    /\ Len(peers) = 1
    /\ peers[1].service_name # service_name
    /\ peers[1].hostname = "h2.local"
    /\ peers[1].port = 80
    /\ emitted = {}
    /\ \E r \in resolvers :
           /\ r.service_name = peers[1].service_name
           /\ r.deleteLater /\ r.owns_peer
           /\ r.peer.hostname = "h2.local"

\* C3: a remove notification for a service name that is not tracked emits no
\* signal, raises no error, and leaves the tracked peers and the Browser as
\* they were.
C3_RemoveUntracked ==
    [][\A n \in BrowseNames :
           (BrowserCallbackRemove(n) /\ ~Tracked(peers, n))
               => /\ peers' = peers
                  /\ browser' = browser
                  /\ resolvers' = resolvers
                  /\ emitted' = {}
                  /\ aborted' = aborted
      ]_vars

\* a Browser without error tracks one peer, not marked for deletion, while
\* the other service name is not tracked: a remove notification for that
\* other name has nothing to remove
C3_Witness ==
    /\ Running(browser)
    /\ browser.error_msg = EmptyString
    /\ Len(peers) = 1
    /\ ~peers[1].deleteLater
    /\ peers[1].hostname # ""
    /\ \E n \in BrowseNames : ~Tracked(peers, n)
    /\ resolvers = {}
    /\ emitted = {}

\* C4, as stated: a remove notification for a tracked service name destroys
\* that peer, so that the name is no longer tracked afterwards, and emits
\* exactly one removed signal carrying the username of the name.
C4_RemoveTracked ==
    [][\A n \in BrowseNames :
           (BrowserCallbackRemove(n) /\ Tracked(peers, n))
               => /\ ~Tracked(peers', n)
                  /\ emitted' = {SigRemoved(username_of(n))}
      ]_vars

----------------------------------------------------------------------------
(* Properties of the ServiceRecord and of DnsSocket failures (Spec) *)

\* a DnsSocket that has recorded a failure
Failed(sock) == sock.alive /\ sock.error_msg # EmptyString

\* C7, as stated: whenever register_callback accepts a name, whatever name
\* the facility handed back, username_of of the accepted service name is the
\* requested username.
C7_UsernameIsRequested ==
    [][\A n \in ReplyNames :
           RegisterCallback(kDNSServiceErr_NoError, n, FALSE)
               => username_of(service_name') = requested_username
      ]_vars

\* C8: a successful registration callback carrying name n makes n, as it
\* is, the accepted service name; service_name_changed is emitted exactly
\* when n differs from the name accepted before, and username_changed exactly
\* when username_of differs between the two.
C8_RegisterSuccess ==
    [][\A n \in ReplyNames :
           RegisterCallback(kDNSServiceErr_NoError, n, FALSE)
               => /\ service_name' = n
                  /\ (SigServiceNameChanged \in emitted') = (n # service_name)
                  /\ (SigUsernameChanged \in emitted')
                         = (username_of(n) # username_of(service_name))
                  /\ emitted' \subseteq {SigServiceNameChanged, SigUsernameChanged}
      ]_vars

\* the facility has replaced an accepted name by a shorter one of the same
\* username: the service name changed, the username did not
C8_Witness ==
    /\ Running(record)
    /\ service_name = Truncated(service_name_of(requested_username, suffix))
    /\ service_name # service_name_of(requested_username, suffix)
    /\ emitted = {SigServiceNameChanged}

\* C9, as stated: every error code reported to the ServiceRecord or to the
\* Browser, by the initial request or by the callback, is terminal: the
\* object records a message and is marked for deletion; from then on it stays
\* as it is until it is destroyed, no new request is made for it; and its
\* destruction emits being_destroyed with the recorded message.
C9_FailureIsTerminal ==
    [][/\ \A e \in ErrorCodes, fd_ok \in BOOLEAN :
              /\ NewServiceRecord(e, fd_ok)
                     => /\ Failed(record') /\ record'.deleteLater
                        /\ record'.ref = "null"
              /\ NewBrowser(e, fd_ok)
                     => /\ Failed(browser') /\ browser'.deleteLater
                        /\ browser'.ref = "null"
       /\ \A e \in ErrorCodes, n \in ReplyNames, dbg \in BOOLEAN :
              (RegisterCallback(e, n, dbg) \/ RecordProcessResult(e, dbg))
                  => Failed(record') /\ record'.deleteLater
       /\ \A e \in ErrorCodes, dbg \in BOOLEAN :
              (BrowserCallbackError(e, dbg) \/ BrowserProcessResult(e, dbg))
                  => Failed(browser') /\ browser'.deleteLater
       /\ Failed(record)
              => /\ record.deleteLater
                 /\ record' = record \/ ~record'.alive
                 /\ (~record'.alive /\ ~aborted')
                        => SigBeingDestroyed("ServiceRecord", record.error_msg)
                               \in emitted'
       /\ Failed(browser)
              => /\ browser.deleteLater
                 /\ browser' = browser \/ ~browser'.alive
                 /\ (~browser'.alive /\ ~aborted')
                        => SigBeingDestroyed("Browser", browser.error_msg)
                               \in emitted'
      ]_vars

\* what C10 says of a step that destroys the ServiceRecord: the accepted
\* service name becomes empty; service_name_changed is emitted exactly when
\* it was not empty, and the Browser's slot marks a tracked peer of the new
\* (empty) name, no other
NameResetAndNotified ==
    /\ service_name' = EmptyString
    /\ (service_name # EmptyString)
           => SigServiceNameChanged \in emitted'
    /\ (service_name = EmptyString)
           => SigServiceNameChanged \notin emitted'
    /\ (browser'.alive /\ browser.alive)
           => \A i \in 1..Len(peers') :
                  (peers'[i].deleteLater
                   /\ peers'[i].service_name # EmptyString)
                      => \E j \in 1..Len(peers) :
                             peers[j] = peers'[i]

\* C10, as stated: whenever the ServiceRecord is destroyed, however that
\* comes about, the accepted service name becomes empty and, if it was not
\* empty, service_name_changed is emitted to its listeners.
C10_RecordTeardown ==
    [][(record.alive /\ ~record'.alive /\ ~aborted') => NameResetAndNotified
      ]_vars

\* C10, amended: when the ServiceRecord is destroyed and the LocalDnsPeer
\* lives on (the application deletes the ServiceRecord, or the event loop
\* after its failure), the accepted service name becomes empty and
\* service_name_changed is emitted if it was not empty; when the
\* ServiceRecord is destroyed by the deletion of the LocalDnsPeer, nothing is
\* set and neither service_name_changed nor username_changed is emitted: only
\* being_destroyed is.
C10_RecordTeardownOfLivingPeer ==
    [][(record.alive /\ ~record'.alive /\ ~aborted')
           => IF local_peer'.alive
              THEN NameResetAndNotified
              ELSE /\ SigServiceNameChanged \notin emitted'
                   /\ SigUsernameChanged \notin emitted'
                   /\ SigBeingDestroyed("ServiceRecord", record.error_msg)
                          \in emitted'
      ]_vars

\* a failed ServiceRecord whose name had been accepted has been destroyed
\* while a Browser was tracking a peer
C10_Witness ==
    /\ local_peer.alive
    /\ ~record.alive /\ ~aborted
    /\ service_name = EmptyString
    /\ SigServiceNameChanged \in emitted
    /\ SigUsernameChanged \in emitted
    /\ \E sig \in emitted : sig[1] = "being_destroyed" /\ sig[3] # EmptyString
    /\ browser.alive /\ Len(peers) = 1

----------------------------------------------------------------------------
(* The life of one DnsSocket (a ServiceRecord, a Resolver or a Browser),    *)
(* with the steps of a round of result processing and of the destructor     *)
(* told apart.  A round is one call of has_pending_data: the facility calls *)
(* the query's callback any number of times inside DNSServiceProcessResult, *)
(* which then returns its code.  The event loop delivers a pending          *)
(* DeferredDelete event before it activates the socket notifier again.      *)

SocketClasses == {"ServiceRecord", "Resolver", "Browser"}

InitSocket ==
    /\ local_peer = [alive |-> TRUE]
    /\ requested_username = <<"a">>
    /\ service_name = EmptyString
    /\ record = NoObject
    /\ browser = NoObject
    /\ peers = <<>>
    /\ resolvers = {}
    /\ emitted = {}
    /\ aborted = FALSE
    /\ InitNamingIdle
    /\ InitLegacyIdle
    /\ sk_class \in SocketClasses
    /\ sk_debug \in BOOLEAN
    /\ sk_pc = "new"
    /\ sk_sock = NoObject
    /\ sk_released = 0
    /\ sk_observed = <<>>

\* the constructor of the subclass: init_with; qFatal when the handle has no
\* descriptor
SkConstruct(err, fd_ok) ==
    /\ sk_pc = "new"
    /\ IF ~has_error(err) /\ ~fd_ok
       THEN /\ sk_pc' = "aborted"
            /\ UNCHANGED sk_sock
       ELSE /\ sk_sock' = init_with(DnsSocket, sk_class, err)
            /\ sk_pc' = "idle"
    /\ UNCHANGED <<sys_vars, ns_vars, lg_vars, sk_class, sk_debug, sk_released, sk_observed>>

\* the socket notifier fires: has_pending_data calls DNSServiceProcessResult
SkRoundBegin ==
    /\ sk_pc = "idle"
    /\ sk_sock.ref = "open"
    /\ ~sk_sock.deleteLater
    /\ sk_pc' = "round"
    /\ UNCHANGED <<sys_vars, ns_vars, lg_vars, sk_class, sk_debug, sk_sock, sk_released,
                   sk_observed>>

\* the socket-level effect of DnsSocket::failure (e) on the object
SkFailure(e) ==
    IF AssertAborts(sk_sock, e, sk_debug)
    THEN /\ sk_pc' = "aborted"
         /\ UNCHANGED sk_sock
    ELSE /\ sk_sock' = failure(sk_sock, sk_class, e)
         /\ UNCHANGED sk_pc

\* the facility calls the query's callback with an error code
SkCallbackError(e) ==
    /\ sk_pc = "round"
    /\ has_error(e)
    /\ SkFailure(e)
    /\ UNCHANGED <<sys_vars, ns_vars, lg_vars, sk_class, sk_debug, sk_released, sk_observed>>

\* the facility calls the query's callback without an error code: the
\* Resolver emits peer_resolved and calls deleteLater; the callback of the
\* ServiceRecord leaves the DnsSocket as it is; so does the callback of the
\* Browser, which creates a Resolver when the notification has the flag
\* kDNSServiceFlagsAdd (add): DNSServiceResolve returns err for it, and
\* init_with of the new Resolver calls qFatal when the handle has no descriptor
SkCallback(add, err, fd_ok) ==
    /\ sk_pc = "round"
    /\ IF sk_class = "Browser" /\ add /\ ~has_error(err) /\ ~fd_ok
       THEN /\ sk_pc' = "aborted"
            /\ UNCHANGED sk_sock
       ELSE /\ sk_sock' = IF sk_class = "Resolver"
                          THEN [sk_sock EXCEPT !.deleteLater = TRUE]
                          ELSE sk_sock
            /\ UNCHANGED sk_pc
    /\ UNCHANGED <<sys_vars, ns_vars, lg_vars, sk_class, sk_debug, sk_released, sk_observed>>

\* DNSServiceProcessResult returns err: the rest of has_pending_data
SkRoundEnd(err) ==
    /\ sk_pc = "round"
    /\ IF has_error(err)
       THEN IF AssertAborts(sk_sock, err, sk_debug)
            THEN /\ sk_pc' = "aborted"
                 /\ UNCHANGED sk_sock
            ELSE /\ sk_sock' = failure(sk_sock, sk_class, err)
                 /\ sk_pc' = "idle"
       ELSE /\ sk_pc' = "idle"
            /\ UNCHANGED sk_sock
    /\ UNCHANGED <<sys_vars, ns_vars, lg_vars, sk_class, sk_debug, sk_released, sk_observed>>

\* a ~DnsSocket that emits being_destroyed before it releases the handle
DNSServiceRefDeallocate_later(sock) == sock

\* a ~DnsSocket that counts a release for a ref that holds no handle
DNSServiceRefDeallocate_null(sock) == [sock EXCEPT !.ref = "released"]

\* DNSServiceRefDeallocate (ref) of ~DnsSocket: a handle is released, a null
\* ref is left alone
DNSServiceRefDeallocate(sock) ==
    IF sock.ref = "open" THEN [sock EXCEPT !.ref = "released"] ELSE sock

\* the object is deleted, by the DeferredDelete event of its own deleteLater
\* or by its owner: the destructor runs up to DNSServiceRefDeallocate
SkDestroy(deferred) ==
    /\ sk_pc = "idle"
    /\ deferred = sk_sock.deleteLater
    /\ sk_sock' = DNSServiceRefDeallocate(sk_sock)
    /\ sk_released' = sk_released + (IF sk_sock'.ref # sk_sock.ref THEN 1 ELSE 0)
    /\ sk_pc' = "dtor"
    /\ UNCHANGED <<sys_vars, ns_vars, lg_vars, sk_class, sk_debug, sk_observed>>

\* emit being_destroyed (error_msg), the end of ~DnsSocket: what a listener
\* is given, and the state of the handle it finds
SkEmitBeingDestroyed ==
    /\ sk_pc = "dtor"
    /\ sk_observed' = Append(sk_observed, [msg |-> sk_sock.error_msg,
                                           ref |-> sk_sock.ref])
    /\ sk_pc' = "gone"
    /\ UNCHANGED <<sys_vars, ns_vars, lg_vars, sk_class, sk_debug, sk_sock, sk_released>>

NextSocket ==
    \/ \E err \in {kDNSServiceErr_NoError} \cup SocketErrorCodes, fd_ok \in BOOLEAN :
           SkConstruct(err, fd_ok)
    \/ SkRoundBegin
    \/ \E add \in BOOLEAN, err \in {kDNSServiceErr_NoError} \cup SocketErrorCodes,
          fd_ok \in BOOLEAN : SkCallback(add, err, fd_ok)
    \/ \E e \in SocketErrorCodes : SkCallbackError(e)
    \/ \E err \in {kDNSServiceErr_NoError} \cup SocketErrorCodes : SkRoundEnd(err)
    \/ \E deferred \in BOOLEAN : SkDestroy(deferred)
    \/ SkEmitBeingDestroyed

\* the event loop runs: a pending DeferredDelete event is delivered, a round
\* and a destructor that have started come to their end
SpecSocket ==
    /\ InitSocket
    /\ [][NextSocket]_vars
    /\ WF_vars(SkDestroy(TRUE))
    /\ WF_vars(SkEmitBeingDestroyed)
    /\ WF_vars(\E err \in {kDNSServiceErr_NoError} \cup SocketErrorCodes : SkRoundEnd(err))

\* the Resolvers that enter their failure state in this step
NewlyFailed(before, after) ==
    {r \in after : Failed(r) /\ \A q \in before : q.id = r.id => ~Failed(q)}

\* the failed Resolvers that are discarded in this step
FailedDiscarded(before, after) ==
    {q \in before : Failed(q) /\ \A r \in after : r.id # q.id}

\* no signal of `signals` is seen by the user of the Browser: no added, no
\* being_destroyed of the Browser
NothingUserVisible(signals) ==
    /\ AddedIn(signals) = {}
    /\ \A sig \in signals : sig[1] = "being_destroyed" => sig[2] # "Browser"

\* C17, as stated: an error code given to a Resolver (at its request, by its
\* callback or by a round of result processing) leaves the Browser, the
\* tracked peers and the other Resolvers as they are and emits nothing; when
\* the failed Resolver is later discarded by the event loop the Browser is
\* still left as it is, no added and no being_destroyed of the Browser is
\* emitted, and the tracked names are those that were not marked for
\* deletion: the Browser handles notifications as before.
C17_ResolverFailureContained ==
    [][/\ \A r \in resolvers, e \in ErrorCodes, dbg \in BOOLEAN :
              (ResolverCallbackError(r, e, dbg) \/ ResolverProcessResult(r, e, dbg))
                  => /\ browser' = browser
                     /\ peers' = peers
                     /\ emitted' = {}
                     /\ ~aborted'
       /\ NewlyFailed(resolvers, resolvers') # {}
              => /\ browser' = browser
                 /\ Running(browser')
                 /\ peers' = peers
                 /\ emitted' = {}
                 /\ ~aborted'
                 /\ \A q \in resolvers :
                        \/ q \in resolvers'
                        \/ \E r \in NewlyFailed(resolvers, resolvers') : r.id = q.id
       /\ (FailedDiscarded(resolvers, resolvers') # {} /\ browser'.alive)
              => /\ browser' = browser
                 /\ NothingUserVisible(emitted')
                 /\ TrackedNames(peers') = TrackedNames(Unmarked(peers, peers))
      ]_vars

\* deleteLater was called on the child at position i: it is a child of the
\* Browser until the event loop deletes it at its next pass
ScheduledForDeletion(ps, i) == ps[i].deleteLater

\* C18, as stated: when the accepted service name changes, no peer is
\* tracked under its old value or under its new value afterwards.
C18_RenameDiscardsSelf ==
    [][service_name' # service_name
           => /\ ~Tracked(peers', service_name)
              /\ ~Tracked(peers', service_name')
      ]_vars

\* C18, amended: when the accepted service name changes, every peer the
\* Browser still tracks under the old or the new value is scheduled for
\* deletion; a child scheduled for deletion stays scheduled, and it is gone
\* from the tracked peers once the event loop has made its next pass.
C18_RenameSchedulesDiscard ==
    [][/\ service_name' # service_name
              => \A i \in 1..Len(peers') :
                     peers'[i].service_name \in {service_name, service_name'}
                         => ScheduledForDeletion(peers', i)
       /\ \A i \in 1..Len(peers) :
              ScheduledForDeletion(peers, i)
                  => /\ \A j \in 1..Len(peers') :
                            peers'[j].service_name = peers[i].service_name
                                => ScheduledForDeletion(peers', j)
                     /\ DeferredDelete
                            => ~Tracked(peers', peers[i].service_name)
      ]_vars

\* the accepted name has just changed to a name the Browser tracks: that
\* child is still tracked, and scheduled for deletion
C18_Witness ==
    /\ service_name # EmptyString
    /\ SigServiceNameChanged \in emitted
    /\ \E i \in 1..Len(peers) :
           peers[i].service_name = service_name /\ ScheduledForDeletion(peers, i)

\* C19: when the Browser is destroyed, whatever its state, its destructor
\* emits being_destroyed, every Resolver is destroyed with it (each emits
\* being_destroyed) and no DnsPeer child is left; as long as there is no
\* Browser there is no Resolver and no tracked peer, and no added is emitted.
C19_BrowserTeardown ==
    /\ [](~browser.alive => resolvers = {} /\ peers = <<>>)
    /\ [][/\ (browser.alive /\ ~browser'.alive)
                 => /\ resolvers' = {}
                    /\ peers' = <<>>
                    /\ AddedIn(emitted') = {}
                    /\ ~aborted'
                           => /\ SigBeingDestroyed("Browser", browser.error_msg)
                                      \in emitted'
                              /\ ResolversDestroyed(resolvers) \subseteq emitted'
          /\ (~browser.alive /\ ~browser'.alive)
                 => AddedIn(emitted') = {}
         ]_vars

\* a Browser that had not failed has just been destroyed by the application
\* together with a Resolver that had not failed
C19_Witness ==
    /\ ~browser.alive
    /\ ~aborted
    /\ SigBeingDestroyed("Browser", EmptyString) \in emitted
    /\ SigBeingDestroyed("Resolver", EmptyString) \in emitted

\* the query of this object has had its outcome: a completion (the Resolver
\* emitted peer_resolved and called deleteLater) or a failure
HasOutcome(sock) == sock.deleteLater \/ Failed(sock)

\* C21, as stated: a query has one outcome only: the callback of a Resolver
\* completes it (peer_resolved) or fails it only when it has had no outcome
\* yet, and failure () runs only on an object whose message is empty (its
\* assertion), whether it is called by the callback or for the code that the
\* round of result processing returns.
C21_OneOutcome ==
    [][/\ \A r \in resolvers :
              /\ \A reply \in ResolveReplies :
                     ResolverCallback(r, reply) => ~HasOutcome(r)
              /\ \A e \in ErrorCodes, dbg \in BOOLEAN :
                     (ResolverCallbackError(r, e, dbg)
                          \/ ResolverProcessResult(r, e, dbg))
                         => ~HasOutcome(r)
       /\ \A e \in ErrorCodes, dbg \in BOOLEAN :
              /\ (BrowserCallbackError(e, dbg) \/ BrowserProcessResult(e, dbg))
                     => ~Failed(browser)
              /\ ((\E n \in ReplyNames : RegisterCallback(e, n, dbg))
                      \/ RecordProcessResult(e, dbg))
                     => ~Failed(record)
      ]_vars

\* C22: the Browser never has two DnsPeer children of the same service
\* name, whatever the order of browse notifications, resolver completions,
\* name changes and deletions.
C22_OnePeerPerName ==
    \A i \in 1..Len(peers) : \A j \in 1..Len(peers) :
        peers[i].service_name = peers[j].service_name => i = j

\* two peers are tracked and a Resolver for a tracked name has completed: the
\* Browser updated its child and left the Resolver its peer
C22_Witness ==
    /\ Len(peers) = 2
    /\ \E r \in resolvers :
           /\ r.deleteLater /\ ~Failed(r) /\ r.owns_peer
           /\ r.peer.hostname # ""
           /\ Tracked(peers, r.service_name)

\* C24: when no deletion is pending and the accepted service name is not
\* empty, the Browser has no DnsPeer child of that name.
C24_QuiescentSelfFilter ==
    (~PendingDelete /\ service_name # EmptyString)
        => ~Tracked(peers, service_name)

\* no deletion is pending, the accepted name is one the Browser is told of,
\* and the Browser tracks the peer of the other name
C24_Witness ==
    /\ ~PendingDelete
    /\ service_name \in BrowseNames
    /\ Running(browser)
    /\ Len(peers) = 1
    /\ peers[1].hostname # ""

\* the Resolvers that hand their peer over in this step
HandedOver(before, after) ==
    {r \in before : r.owns_peer /\ \E q \in after : q.id = r.id /\ ~q.owns_peer}

\* the Resolvers that are destroyed in this step
Destroyed(before, after) == {r \in before : \A q \in after : q.id # r.id}

\* C26: a DnsPeer has one owner.  A Resolver is created owning an empty peer
\* of its service name and never gets a peer back; it hands the peer over in
\* exactly the steps that emit added, and the peer is then the last child of
\* the Browser; a Resolver that did not hand its peer over still owns it when
\* it is destroyed, and the destruction of Resolvers adds no child to the
\* Browser and removes none: only children marked for deletion go.
C26_PeerOwnership ==
    /\ [](\A r \in resolvers :
              IF r.owns_peer THEN r.peer.service_name = r.service_name
              ELSE r.peer = TakenPeer /\ r.deleteLater)
    /\ [][/\ \A q \in resolvers' :
                 (\A r \in resolvers : r.id # q.id)
                     => q.owns_peer /\ q.peer = DnsPeer(q.service_name)
          /\ \A r \in resolvers : \A q \in resolvers' :
                 (q.id = r.id /\ q.owns_peer) => r.owns_peer
          /\ \A r \in HandedOver(resolvers, resolvers') :
                 /\ Len(peers') = Len(peers) + 1
                 /\ peers'[Len(peers')].service_name = r.service_name
                 /\ emitted' = {SigAdded(peers'[Len(peers')])}
          /\ AddedIn(emitted') # {}
                 => Cardinality(HandedOver(resolvers, resolvers')) = 1
          /\ (Destroyed(resolvers, resolvers') # {} /\ browser'.alive)
                 => TrackedNames(peers') = TrackedNames(Unmarked(peers, peers))
         ]_vars

\* a Resolver has just handed its peer over to the Browser, which emitted
\* added for it, and waits for its own deletion
C26_Witness ==
    /\ Len(peers) = 1
    /\ emitted = {SigAdded(peers[1])}
    /\ \E r \in resolvers :
           ~r.owns_peer /\ r.deleteLater /\ r.service_name = peers[1].service_name

----------------------------------------------------------------------------
(* Properties of one DnsSocket (SpecSocket) *)

\* the text each subclass puts before the message of an error code
MessagePrefix(class) ==
    CASE class = "ServiceRecord" -> "Service registration failed: "
      [] class = "Resolver" -> "Service resolver failed: "
      [] class = "Browser" -> "Service browser failed: "

\* the message of each error code of SocketErrorCodes
MessageText(e) ==
    CASE e = kDNSServiceErr_Unknown -> "Unknown error"
      [] e = kDNSServiceErr_NoSuchName -> "Internal error: No such name"
      [] e = kDNSServiceErr_NoMemory -> "Out of memory"
      [] e = kDNSServiceErr_NameConflict -> "Service name is already taken"
      [] e = kDNSServiceErr_ServiceNotRunning -> "Zeroconf service in not running"
      [] e = UnlistedCode -> "Unknown error code: -1"

MessageTexts == {MessageText(e) : e \in SocketErrorCodes}

\* the messages a failure of this object can record
FailureMessages == {<<MessagePrefix(sk_class), text>> : text \in MessageTexts}

\* the messages a failure of an object of any subclass can record
AnyFailureMessage ==
    {<<MessagePrefix(class), text>> : class \in SocketClasses, text \in MessageTexts}

\* C11: when a DnsSocket is destroyed its handle is released before
\* being_destroyed is emitted: every listener of the signal finds the handle
\* released (or never obtained); the message of the signal is the one the
\* object holds: empty when no failure was recorded (the object was deleted
\* by its owner, or is a Resolver that completed), a failure message of an
\* object that scheduled its own teardown otherwise.
C11_ReleasedBeforeNotified ==
    /\ Len(sk_observed) <= 1
    /\ \A i \in 1..Len(sk_observed) :
           /\ sk_observed[i].ref # "open"
           /\ sk_observed[i].msg = sk_sock.error_msg
           /\ sk_observed[i].msg = EmptyString
                  => ~sk_sock.deleteLater \/ sk_class = "Resolver"
           /\ sk_observed[i].msg # EmptyString
                  => /\ sk_sock.deleteLater
                     /\ sk_observed[i].msg \in FailureMessages
    /\ (sk_pc = "gone") = (Len(sk_observed) = 1)

\* a Browser that failed while its handle was open has been destroyed: its
\* listeners were given the message and found the handle released
C11_Witness ==
    /\ sk_class = "Browser"
    /\ sk_pc = "gone"
    /\ sk_observed = <<[msg |-> <<"Service browser failed: ", "Out of memory">>,
                        ref |-> "released"]>>

\* C12, as stated: if a round of result processing yields an error code, the
\* object records a non-empty message for it and schedules its own teardown,
\* and its owner is eventually given that message by being_destroyed.
C12_ErrorRoundNotifies ==
    /\ [][\A err \in SocketErrorCodes :
              SkRoundEnd(err)
                  => /\ sk_sock'.error_msg = <<MessagePrefix(sk_class), MessageText(err)>>
                     /\ sk_sock'.deleteLater
                     /\ sk_pc' = "idle"
         ]_vars
    /\ \A m \in AnyFailureMessage :
           (sk_pc = "idle" /\ sk_sock.ref = "open" /\ sk_sock.error_msg = m)
               ~> (sk_pc = "gone" /\ sk_observed = <<[msg |-> m, ref |-> "released"]>>)

\* C20: the handle a DnsSocket obtained is released exactly once, by the
\* destructor, however the object comes to be destroyed (its own deleteLater
\* after a failure, or its owner); it is not released while the object
\* lives, never twice, and a ref that holds no handle is not released.
C20_ReleasedExactlyOnce ==
    /\ [](/\ sk_released \in {0, 1}
          /\ sk_pc \in {"new", "idle", "round"}
                 => sk_released = 0 /\ (sk_sock.alive => sk_sock.ref # "released")
          /\ sk_pc \in {"dtor", "gone"}
                 => /\ sk_sock.ref # "open"
                    /\ sk_released = IF sk_sock.ref = "released" THEN 1 ELSE 0)
    /\ [][\A deferred \in BOOLEAN :
              SkDestroy(deferred)
                  => IF sk_sock.ref = "open"
                     THEN sk_sock'.ref = "released" /\ sk_released' = 1
                     ELSE sk_sock'.ref = "null" /\ sk_released' = 0
         ]_vars

\* a Resolver without failure has been destroyed by its owner, its handle
\* released once
C20_Witness ==
    /\ sk_class = "Resolver"
    /\ sk_pc = "gone"
    /\ sk_sock.ref = "released"
    /\ ~sk_sock.deleteLater
    /\ sk_released = 1

----------------------------------------------------------------------------
(* src/src/discovery.h: the Resolver that looks the host name up with       *)
(* QHostInfo, and the Browser that keeps the names of the discovered peers. *)
(* Names are usernames.  A DnsSocket is a child of its Resolver or Browser. *)

\* Browser::instance_username
instance_username == <<"a">>

\* Resolver::hostname_lookup_id when no lookup is recorded
NoLookup == -1

\* what QHostInfo hands to hostname_resolved
HostInfos == {[error |-> "NoError", addresses |-> <<"192.168.1.10", "fe80::1">>],
              [error |-> "NoError", addresses |-> <<>>],
              [error |-> "HostNotFound", addresses |-> <<>>]}

LgPeerComplete(peer) == <<"peer_complete", peer>>
LgAdded(peer) == <<"added", peer>>
LgRemoved(username) == <<"removed", username>>

\* qFatal
LgAbort ==
    /\ lg_aborted' = TRUE
    /\ lg_service' = NoObject
    /\ lg_browser' = NoObject
    /\ lg_discovered' = {}
    /\ lg_resolvers' = {}
    /\ lg_lookups' = {}
    /\ lg_emitted' = {}

LgRegistered(name) == <<"registered", name>>

\* Service::Service: fromRegister gives a DnsSocket child, or nullptr on
\* error; the DnsSocket constructor calls qFatal when the handle has no
\* descriptor
LgNewService(err, fd_ok) ==
    /\ ~lg_aborted
    /\ ~lg_service.alive
    /\ IF ~has_error(err) /\ ~fd_ok
       THEN LgAbort
       ELSE /\ lg_service' = [alive |-> TRUE, socket |-> ~has_error(err)]
            /\ lg_emitted' = {}
            /\ UNCHANGED <<lg_browser, lg_discovered, lg_resolvers, lg_lookups,
                           lg_aborted>>
    /\ UNCHANGED <<sys_vars, ns_vars, sk_vars, lg_last>>

\* Service::register_callback: registered (name) is emitted when there is no
\* error; an error is logged (qCritical)
LgRegisterCallback(error_code, name) ==
    /\ ~lg_aborted
    /\ lg_service.alive /\ lg_service.socket
    /\ lg_emitted' = IF has_error(error_code) THEN {} ELSE {LgRegistered(name)}
    /\ UNCHANGED <<lg_service, lg_browser, lg_discovered, lg_resolvers, lg_lookups,
                   lg_aborted>>
    /\ UNCHANGED <<sys_vars, ns_vars, sk_vars, lg_last>>

\* the application deletes the Service, and its DnsSocket child with it
LgDeleteService ==
    /\ ~lg_aborted
    /\ lg_service.alive
    /\ lg_service' = NoObject
    /\ lg_emitted' = {}
    /\ UNCHANGED <<lg_browser, lg_discovered, lg_resolvers, lg_lookups, lg_aborted>>
    /\ UNCHANGED <<sys_vars, ns_vars, sk_vars, lg_last>>

\* Browser::Browser: fromBrowse gives a DnsSocket child, or nullptr on error
LgNewBrowser(err, fd_ok) ==
    /\ ~lg_aborted
    /\ ~lg_browser.alive
    /\ IF ~has_error(err) /\ ~fd_ok
       THEN LgAbort
       ELSE /\ lg_browser' = [alive |-> TRUE, socket |-> ~has_error(err)]
            /\ lg_emitted' = {}
            /\ UNCHANGED <<lg_service, lg_discovered, lg_resolvers, lg_lookups,
                           lg_aborted>>
    /\ UNCHANGED <<sys_vars, ns_vars, sk_vars, lg_last>>

\* identities in use: by a Resolver, or by a lookup still meant for one
LgUsedIds == {r.id : r \in lg_resolvers} \cup {l.resolver : l \in lg_lookups}

LgNewId == CHOOSE i \in Ids \ LgUsedIds : \A j \in Ids \ LgUsedIds : i <= j

\* Resolver::Resolver: fromResolve gives a DnsSocket child, whose error signal
\* is connected to deleteLater; without one the Resolver deletes itself later.
\* emitted and failed record what the Resolver has done so far.
LgResolver(id, name, err) ==
    [id |-> id, username |-> name, hostname |-> "", port |-> UninitialisedPort,
     address |-> "", socket |-> ~has_error(err), socket_error |-> FALSE,
     hostname_lookup_id |-> NoLookup, deleteLater |-> has_error(err),
     emitted |-> FALSE, failed |-> has_error(err)]

\* a resolved_peer_added without the test against instance_username
resolved_peer_added_no_filter(discovered, peer) ==
    IF peer.username \notin discovered
    THEN [discovered |-> discovered \cup {peer.username},
          signals |-> {LgAdded(peer)}]
    ELSE [discovered |-> discovered, signals |-> {}]

\* Browser::resolved_peer_added: discovered_peers afterwards, signals emitted
resolved_peer_added(discovered, peer) ==
    IF peer.username # instance_username
    THEN IF peer.username \notin discovered
         THEN [discovered |-> discovered \cup {peer.username},
               signals |-> {LgAdded(peer)}]
         ELSE [discovered |-> discovered, signals |-> {}]
    ELSE [discovered |-> discovered, signals |-> {}]

\* Browser::browser_callback
LgBrowserCallback(error_code, add, name, err, fd_ok) ==
    /\ ~lg_aborted
    /\ lg_browser.alive /\ lg_browser.socket
    /\ IF has_error(error_code)
       THEN /\ lg_emitted' = {}
            /\ UNCHANGED <<lg_service, lg_browser, lg_discovered, lg_resolvers,
                           lg_lookups, lg_aborted>>
       ELSE IF add
       THEN /\ Ids \ LgUsedIds # {}
            /\ IF ~has_error(err) /\ ~fd_ok
               THEN LgAbort
               ELSE /\ lg_resolvers' = lg_resolvers
                                           \cup {LgResolver(LgNewId, name, err)}
                    /\ lg_emitted' = {}
                    /\ UNCHANGED <<lg_service, lg_browser, lg_discovered, lg_lookups,
                                   lg_aborted>>
       ELSE /\ IF name # instance_username /\ name \in lg_discovered
               THEN /\ lg_discovered' = lg_discovered \ {name}
                    /\ lg_emitted' = {LgRemoved(name)}
               ELSE /\ lg_emitted' = {}
                    /\ UNCHANGED lg_discovered
            /\ UNCHANGED <<lg_service, lg_browser, lg_resolvers, lg_lookups, lg_aborted>>
    /\ lg_last' = IF has_error(error_code) THEN lg_last
                   ELSE [lg_last EXCEPT ![name] = IF add THEN "appeared"
                                                  ELSE "disappeared"]
    /\ UNCHANGED <<sys_vars, ns_vars, sk_vars>>

\* the ids of the lookups QHostInfo has pending
LgPendingIds == {l.id : l \in lg_lookups}

\* QHostInfo::lookupHost returns an id not in use
LgNewLookupId ==
    LET used == LgPendingIds \cup {r.hostname_lookup_id : r \in lg_resolvers}
    IN  CHOOSE i \in (1..MaxLookups) \ used :
            \A j \in (1..MaxLookups) \ used : i <= j

\* hostname_lookup_id after QHostInfo::lookupHost in resolver_callback
lookupHost(r, new_id) == new_id

\* Resolver::resolver_callback
LgResolverCallback(r, error_code, reply) ==
    /\ ~lg_aborted
    /\ r \in lg_resolvers
    /\ r.socket /\ ~r.socket_error
    /\ IF has_error(error_code)
       THEN /\ lg_resolvers' = (lg_resolvers \ {r})
                                   \cup {[r EXCEPT !.deleteLater = TRUE,
                                                   !.failed = TRUE]}
            /\ UNCHANGED lg_lookups
       ELSE /\ \E i \in 1..MaxLookups :
                   i \notin LgPendingIds \cup {q.hostname_lookup_id : q \in lg_resolvers}
            /\ LET id == lookupHost(r, LgNewLookupId)
               IN  /\ lg_resolvers' =
                          (lg_resolvers \ {r})
                              \cup {[r EXCEPT !.port = qFromBigEndian(reply.port),
                                              !.hostname = reply.hostname,
                                              !.hostname_lookup_id = id]}
                   /\ lg_lookups' = lg_lookups
                                        \cup {[id |-> id, resolver |-> r.id]}
    /\ lg_emitted' = {}
    /\ UNCHANGED <<lg_service, lg_browser, lg_discovered, lg_aborted>>
    /\ UNCHANGED <<sys_vars, ns_vars, sk_vars, lg_last>>

\* DnsSocket::has_pending_data of a Resolver's socket: DNSServiceProcessResult
\* returns an error, the error signal runs Resolver::deleteLater
LgSocketError(r) ==
    /\ ~lg_aborted
    /\ r \in lg_resolvers
    /\ r.socket /\ ~r.socket_error
    /\ lg_resolvers' = (lg_resolvers \ {r})
                           \cup {[r EXCEPT !.deleteLater = TRUE,
                                           !.socket_error = TRUE,
                                           !.failed = TRUE]}
    /\ lg_emitted' = {}
    /\ UNCHANGED <<lg_service, lg_browser, lg_discovered, lg_lookups, lg_aborted>>
    /\ UNCHANGED <<sys_vars, ns_vars, sk_vars, lg_last>>

\* Resolver::peer_info as emitted with peer_complete
LgPeerInfo(r) ==
    [username |-> r.username, hostname |-> r.hostname, port |-> r.port,
     address |-> r.address]

\* Resolver::hostname_resolved: the result of lookup l reaches its Resolver
LgHostnameResolved(l, host_info) ==
    /\ ~lg_aborted
    /\ l \in lg_lookups
    /\ \E r \in lg_resolvers : r.id = l.resolver
    /\ LET r == CHOOSE q \in lg_resolvers : q.id = l.resolver
       IN  IF host_info.error = "NoError"
           THEN IF host_info.addresses = <<>>
                THEN LgAbort
                ELSE LET done == [r EXCEPT !.hostname_lookup_id = NoLookup,
                                           !.address = Head(host_info.addresses),
                                           !.emitted = TRUE,
                                           !.deleteLater = TRUE]
                         res == resolved_peer_added(lg_discovered, LgPeerInfo(done))
                     IN  /\ lg_resolvers' = (lg_resolvers \ {r}) \cup {done}
                         /\ lg_lookups' = lg_lookups \ {l}
                         /\ lg_discovered' = res.discovered
                         /\ lg_emitted' = {LgPeerComplete(LgPeerInfo(done))}
                                              \cup res.signals
                         /\ UNCHANGED <<lg_service, lg_browser, lg_aborted>>
           ELSE /\ lg_resolvers' = (lg_resolvers \ {r})
                                       \cup {[r EXCEPT !.hostname_lookup_id = NoLookup,
                                                       !.failed = TRUE,
                                                       !.deleteLater = TRUE]}
                /\ lg_lookups' = lg_lookups \ {l}
                /\ lg_emitted' = {}
                /\ UNCHANGED <<lg_service, lg_browser, lg_discovered, lg_aborted>>
    /\ UNCHANGED <<sys_vars, ns_vars, sk_vars, lg_last>>

\* the result of a lookup whose Resolver is gone is delivered to nobody
LgLookupDropped(l) ==
    /\ ~lg_aborted
    /\ l \in lg_lookups
    /\ ~\E r \in lg_resolvers : r.id = l.resolver
    /\ lg_lookups' = lg_lookups \ {l}
    /\ lg_emitted' = {}
    /\ UNCHANGED <<lg_service, lg_browser, lg_discovered, lg_resolvers, lg_aborted>>
    /\ UNCHANGED <<sys_vars, ns_vars, sk_vars, lg_last>>

\* QHostInfo::abortHostLookup (id)
abortHostLookup(lookups, id) == {l \in lookups : l.id # id}

\* Resolver::~Resolver of every Resolver in rs: the lookups left pending
RECURSIVE LgDestroyResolvers(_, _)
LgDestroyResolvers(rs, lookups) ==
    IF rs = {} THEN lookups
    ELSE LET r == CHOOSE q \in rs : TRUE
             left == IF r.hostname_lookup_id # NoLookup
                     THEN abortHostLookup(lookups, r.hostname_lookup_id)
                     ELSE lookups
         IN  LgDestroyResolvers(rs \ {r}, left)

\* the event loop delivers the DeferredDelete events of the Resolvers
LgDeferredDelete ==
    /\ ~lg_aborted
    /\ \E r \in lg_resolvers : r.deleteLater
    /\ LET gone == {r \in lg_resolvers : r.deleteLater}
       IN  /\ lg_resolvers' = lg_resolvers \ gone
           /\ lg_lookups' = LgDestroyResolvers(gone, lg_lookups)
    /\ lg_emitted' = {}
    /\ UNCHANGED <<lg_service, lg_browser, lg_discovered, lg_aborted>>
    /\ UNCHANGED <<sys_vars, ns_vars, sk_vars, lg_last>>

\* the application deletes the Browser: its children, the Resolvers and the
\* DnsSocket, are deleted with it
LgDeleteBrowser ==
    /\ ~lg_aborted
    /\ lg_browser.alive
    /\ lg_browser' = NoObject
    /\ lg_discovered' = {}
    /\ lg_resolvers' = {}
    /\ lg_lookups' = LgDestroyResolvers(lg_resolvers, lg_lookups)
    /\ lg_emitted' = {}
    /\ UNCHANGED <<lg_service, lg_aborted>>
    /\ lg_last' = [u \in LgNames |-> "none"]
    /\ UNCHANGED <<sys_vars, ns_vars, sk_vars>>

NextLegacy ==
    \/ \E err \in AnyCode, fd_ok \in BOOLEAN : LgNewService(err, fd_ok)
    \/ \E e \in AnyCode, n \in LgNames : LgRegisterCallback(e, n)
    \/ LgDeleteService
    \/ \E err \in AnyCode, fd_ok \in BOOLEAN : LgNewBrowser(err, fd_ok)
    \/ \E e \in AnyCode, add \in BOOLEAN, n \in LgNames, err \in AnyCode,
          fd_ok \in BOOLEAN : LgBrowserCallback(e, add, n, err, fd_ok)
    \/ \E r \in lg_resolvers, e \in AnyCode, reply \in ResolveReplies :
           LgResolverCallback(r, e, reply)
    \/ \E r \in lg_resolvers : LgSocketError(r)
    \/ \E l \in lg_lookups, h \in HostInfos : LgHostnameResolved(l, h)
    \/ \E l \in lg_lookups : LgLookupDropped(l)
    \/ LgDeferredDelete
    \/ LgDeleteBrowser

InitLegacy ==
    /\ local_peer = [alive |-> TRUE]
    /\ requested_username = <<"a">>
    /\ service_name = EmptyString
    /\ record = NoObject
    /\ browser = NoObject
    /\ peers = <<>>
    /\ resolvers = {}
    /\ emitted = {}
    /\ aborted = FALSE
    /\ InitNamingIdle
    /\ InitSocketIdle
    /\ InitLegacyIdle

SpecLegacy == InitLegacy /\ [][NextLegacy]_vars

----------------------------------------------------------------------------
(* Properties of the Resolver of src/src/discovery.h (SpecLegacy) *)

\* the state of the resolution pipeline a Resolver is in
LgState(r) ==
    IF r.deleteLater THEN (IF r.emitted THEN "Complete" ELSE "Failed")
    ELSE IF r.hostname_lookup_id # NoLookup THEN "LookingUpHostname"
    ELSE "ResolvingService"

LgRank(r) ==
    CASE LgState(r) = "ResolvingService" -> 1
      [] LgState(r) = "LookingUpHostname" -> 2
      [] OTHER -> 3

\* C13, as stated: a Resolver only moves forward through ResolvingService,
\* LookingUpHostname and then Complete or Failed; it becomes Complete only
\* from LookingUpHostname; and once it has emitted or failed its own deletion
\* is scheduled.
C13_ForwardOnly ==
    [][\A r \in lg_resolvers : \A q \in lg_resolvers' :
           q.id = r.id
               => /\ LgRank(q) >= LgRank(r)
                  /\ (LgState(q) = "Complete" /\ LgState(r) # "Complete")
                         => LgState(r) = "LookingUpHostname"
                  /\ (q.emitted \/ q.failed) => q.deleteLater
      ]_vars

\* C14, as stated: a Resolver that has failed (request error, callback
\* error, socket error or lookup error) has not emitted peer_complete and
\* does not emit it later, and its own deletion is scheduled.
C14_FailedNeverEmits ==
    \A r \in lg_resolvers : r.failed => (~r.emitted /\ r.deleteLater)

\* C15, as stated: a lookup that reports no error and no address ends only
\* the Resolver that started it: that Resolver schedules its own deletion and
\* emits nothing, the process goes on, and the Browser, its discovered peers
\* and its other Resolvers are as before.
C15_EmptyLookupIsLocal ==
    [][\A l \in lg_lookups :
           LgHostnameResolved(l, [error |-> "NoError", addresses |-> <<>>])
               => /\ ~lg_aborted'
                  /\ lg_browser' = lg_browser
                  /\ lg_discovered' = lg_discovered
                  /\ lg_emitted' = {}
                  /\ \A r \in lg_resolvers :
                         IF r.id = l.resolver
                         THEN \E q \in lg_resolvers' :
                                  q.id = r.id /\ q.deleteLater /\ ~q.emitted
                         ELSE r \in lg_resolvers'
      ]_vars

\* C16, as stated: hostname_lookup_id identifies the pending lookup of its
\* Resolver whenever one is pending and is cleared once the lookup has
\* completed; a Resolver that is destroyed has its pending lookup aborted, so
\* that no pending lookup is left for a Resolver that is gone.
C16_TokenTracksLookup ==
    /\ \A r \in lg_resolvers :
           r.hostname_lookup_id # NoLookup
               => \E l \in lg_lookups :
                      l.id = r.hostname_lookup_id /\ l.resolver = r.id
    /\ \A l \in lg_lookups :
           \E r \in lg_resolvers :
               r.id = l.resolver /\ r.hostname_lookup_id = l.id

\* C23, as stated: when the last browse notification of a name says the
\* peer disappeared, no Resolver for the name is left, no lookup is pending
\* and no deletion is scheduled, the name is not among the discovered peers.
C23_NoStalePeer ==
    \A u \in LgNames :
        (/\ lg_last[u] = "disappeared"
         /\ \A r \in lg_resolvers : r.username # u /\ ~r.deleteLater
         /\ lg_lookups = {})
            => u \notin lg_discovered

\* the names for which `signals` holds an added
LgAddedNames(signals) ==
    {sig[2].username : sig \in {x \in signals : x[1] = "added"}}

\* the names for which `signals` holds a removed
LgRemovedNames(signals) ==
    {sig[2] : sig \in {x \in signals : x[1] = "removed"}}

\* C25: in the Browser of src/src/discovery.h added (u) is emitted exactly
\* when u enters discovered_peers and removed (u) exactly when u leaves it
\* while the Browser lives, so that for each name the events alternate,
\* starting with added, and discovered_peers is the set of names added and
\* not removed since; the instance's own username is never in the set and
\* never the subject of an event.
C25_AddedRemovedAlternate ==
    /\ [](instance_username \notin lg_discovered)
    /\ [][/\ LgAddedNames(lg_emitted') = lg_discovered' \ lg_discovered
          /\ lg_browser'.alive
                 => LgRemovedNames(lg_emitted') = lg_discovered \ lg_discovered'
          /\ LgRemovedNames(lg_emitted') \subseteq lg_discovered \ lg_discovered'
          /\ instance_username
                 \notin LgAddedNames(lg_emitted') \cup LgRemovedNames(lg_emitted')
         ]_vars

\* removed has just been emitted for a name that had been added, while a
\* Resolver has completed for the instance's own username
C25_Witness ==
    /\ LgRemoved(<<"a", "b">>) \in lg_emitted
    /\ lg_discovered = {}
    /\ \E r \in lg_resolvers : r.username = instance_username /\ r.emitted

====
